---- MODULE Spec2Model ----
(***************************************************************************)
(* BaseVariationalAutoencoder (src/src/prediction/vae_base.py): the        *)
(* abstract Keras model that owns an encoder, a decoder, three running-    *)
(* mean loss trackers and the per-batch train_step / test_step / call.     *)
(*                                                                         *)
(* Tensors are rank-2 (a sequence of rows).  Scalars are fixed-point       *)
(* numbers: the integer n stands for n / Scale, and every product,         *)
(* quotient and exponential is rounded to the nearest multiple of          *)
(* 1 / Scale, the way the float32 kernels round to the nearest             *)
(* representable value.                                                    *)
(***************************************************************************)
EXTENDS Integers, Sequences, FiniteSets

VARIABLES
    cls,        \* the concrete subclass being instantiated (fixed)
    phase,      \* "new" | "built" | "failed": construction of the model
    config,     \* encode_len, decode_len, feat_dim, latent_dim, reconstruction_wt
    encoder,    \* self.encoder: "None" or "net"
    decoder,    \* self.decoder: "None" or "net"
    weights,    \* the value of every weight of encoder + decoder
    optimizer,  \* self.optimizer: its iterations counter
    trackers,   \* the three Mean metrics: [total, count] each
    received,   \* history: the scalars each tracker got since its last reset
    pc,         \* position inside the running step ("idle" between steps)
    frame,      \* the locals of the running / last step
    result,     \* what the last operation returned or raised
    calls,      \* the last two completed call(X): <<previous, latest>>
    steps       \* number of operations started (bounds the exploration)

vars == <<cls, phase, config, encoder, decoder, weights, optimizer, trackers,
          received, pc, frame, result, calls, steps>>

----------------------------------------------------------------------------
(* Bounds of the exploration *)

MaxSteps == 2

(* Fixed-point resolution: one unit is 1 / Scale *)
Scale == 8

One == Scale
Half == Scale \div 2

----------------------------------------------------------------------------
(* Arithmetic of the tensor kernels *)

\* n / d rounded to the nearest integer (d > 0)
RoundDiv(n, d) == (2 * n + d) \div (2 * d)

\* a * b
Mul(a, b) == RoundDiv(a * b, Scale)

\* tf.square
Square(a) == Mul(a, a)

\* Scale * exp(k / Scale), rounded to nearest, for k in -24 .. 24
ExpTable ==
    << 0, 0, 1, 1, 1, 1, 1, 1, 1, 1, 1, 2, 2, 2, 2, 3, 3, 3, 4, 4, 5, 5, 6, 7,
       8,
       9, 10, 12, 13, 15, 17, 19, 22, 25, 28, 32, 36, 41, 46, 52, 59, 67, 76,
       86, 97, 110, 125, 142, 161 >>

\* tf.exp
Exp(k) == ExpTable[k + 25]

Sgn(n) == IF n > 0 THEN 1 ELSE IF n < 0 THEN -1 ELSE 0

Max(a, b) == IF a >= b THEN a ELSE b

----------------------------------------------------------------------------
(* Rank-2 tensors *)

Rows(T) == Len(T)
Cols(T) == Len(T[1])
Shape(T) == <<Rows(T), Cols(T)>>

Fill(r, c, v) == [i \in 1..r |-> [j \in 1..c |-> v]]

\* NumPy-style broadcasting, as every elementwise TensorFlow kernel applies it
Broadcastable(s1, s2) ==
    \A d \in 1..2 : s1[d] = s2[d] \/ s1[d] = 1 \/ s2[d] = 1

BroadcastShape(s1, s2) == <<Max(s1[1], s2[1]), Max(s1[2], s2[2])>>

\* element (i, j) of T seen at a broadcast shape
At(T, i, j) ==
    T[IF Rows(T) = 1 THEN 1 ELSE i][IF Cols(T) = 1 THEN 1 ELSE j]

\* tf.math.squared_difference(A, B), defined when the shapes broadcast
squared_difference(A, B) ==
    LET s == BroadcastShape(Shape(A), Shape(B))
    IN  [i \in 1..s[1] |-> [j \in 1..s[2] |->
            Square(At(A, i, j) - At(B, i, j))]]

RECURSIVE SumSeq(_)
SumSeq(s) == IF s = <<>> THEN 0 ELSE s[1] + SumSeq(Tail(s))

NumElements(T) == Rows(T) * Cols(T)

\* tf.reduce_sum over all elements
reduce_sum(T) == SumSeq([i \in 1..Rows(T) |-> SumSeq(T[i])])

\* tf.reduce_mean over all elements
reduce_mean(T) == RoundDiv(reduce_sum(T), NumElements(T))

----------------------------------------------------------------------------
(* The concrete subclasses and their networks *)

None == "None"

\* every weight tensor of encoder + decoder (one scalar each)
WeightNames == {"we", "wv", "wd", "wx"}

\* the weights the forward pass reads; "wx" belongs to a layer that is built
\* but never wired between the input and the outputs
Connected == {"we", "wv", "wd"}

Archs == {"connected", "partial", "frozen"}

\* self.trainable_weights of a subclass with the given architecture:
\*   connected: exactly the weights the forward pass reads
\*   partial:   those plus the unwired "wx"
\*   frozen:    the wired layers are frozen, only "wx" is trainable
trainable_weights(arch) ==
    CASE arch = "connected" -> Connected
      [] arch = "partial"   -> WeightNames
      [] arch = "frozen"    -> {"wx"}

\* A subclass: which abstract methods it overrides, whether its __init__
\* assigns self.encoder / self.decoder after super().__init__, its topology
Subclasses ==
    { c \in [has_get_encoder : BOOLEAN, has_get_decoder : BOOLEAN,
             sets_encoder : BOOLEAN, sets_decoder : BOOLEAN, arch : Archs] :
        \/ c.has_get_encoder /\ c.has_get_decoder
             /\ c.sets_encoder /\ c.sets_decoder
        \/ c.arch = "connected" }

\* the values the weight initializers produce
InitialWeights == [we |-> One, wv |-> One, wd |-> One, wx |-> 0]

\* reconstruction_wt: 0 and the default 5.0
ReconstructionWts == {0, 5 * One}

\* decode_len * feat_dim of the configurations explored
DecodeLens == {2}

\* The encoder network: X [batch, 1] -> z_mean, z_log_var, z [batch, 1], with
\* z = z_mean + exp(0.5 * z_log_var) * epsilon, epsilon drawn per element
Encoder(w, X, eps) ==
    LET mean(i) == Mul(w.we, X[i][1])
        logvar(i) == Mul(w.wv, X[i][1])
    IN  [ z_mean    |-> [i \in 1..Rows(X) |-> <<mean(i)>>],
          z_log_var |-> [i \in 1..Rows(X) |-> <<logvar(i)>>],
          z         |-> [i \in 1..Rows(X) |->
                           <<mean(i) + Mul(Exp(Mul(Half, logvar(i))), eps[i])>>] ]

\* The decoder network: Z [batch, 1] -> [batch, decode_len]
Decoder(w, Z, decode_len) ==
    [i \in 1..Rows(Z) |-> [j \in 1..decode_len |-> Mul(w.wd, Z[i][1])]]

----------------------------------------------------------------------------
(* The loss computations of train_step and test_step *)

\* variant: the constant 1 of the KL term left out
kl_elementwise_without_one(z_mean, z_log_var) ==
    [i \in 1..Rows(z_mean) |-> [j \in 1..Cols(z_mean) |->
        Mul(-Half, z_log_var[i][j] - Square(z_mean[i][j])
                     - Exp(z_log_var[i][j]))]]

\* -0.5 * (1 + z_log_var - tf.square(z_mean) - tf.exp(z_log_var)), elementwise
kl_elementwise(z_mean, z_log_var) ==
    [i \in 1..Rows(z_mean) |-> [j \in 1..Cols(z_mean) |->
        Mul(-Half, One + z_log_var[i][j] - Square(z_mean[i][j])
                     - Exp(z_log_var[i][j]))]]

\* variant: the reconstruction weight left out
total_loss_unweighted(reconstruction_wt, reconstruction_loss, kl_loss) ==
    reconstruction_loss + kl_loss

\* self.reconstruction_wt * reconstruction_loss + kl_loss
total_loss_of(reconstruction_wt, reconstruction_loss, kl_loss) ==
    Mul(reconstruction_wt, reconstruction_loss) + kl_loss

\* the reduction train_step applies to its two loss tensors
train_reduce(T) == reduce_mean(T)

\* variant: test_step reducing by mean, as train_step does
test_reduce_by_mean(T) == reduce_mean(T)

\* the reduction test_step applies to its two loss tensors
test_reduce(T) == reduce_sum(T)

\* encoder and decoder outputs of one forward pass on (X, eps)
ForwardPass(w, cfg, X, eps) ==
    LET e == Encoder(w, X, eps)
    IN  [ z_mean |-> e.z_mean, z_log_var |-> e.z_log_var, z |-> e.z,
          reconstruction |-> Decoder(w, e.z, cfg.decode_len) ]

\* tf.math.squared_difference raises InvalidArgumentError for operands whose
\* shapes do not broadcast
ShapesAccepted(Y, reconstruction) ==
    Broadcastable(Shape(Y), Shape(reconstruction))

\* train_step, lines 72-78 (shapes accepted)
TrainLosses(w, cfg, X, Y, eps) ==
    LET f == ForwardPass(w, cfg, X, eps)
        err == squared_difference(Y, f.reconstruction)
        reconstruction_loss == train_reduce(err)
        kl_loss == train_reduce(kl_elementwise(f.z_mean, f.z_log_var))
    IN  [ z_mean |-> f.z_mean, z_log_var |-> f.z_log_var, z |-> f.z,
          reconstruction |-> f.reconstruction, err |-> err,
          reconstruction_loss |-> reconstruction_loss,
          kl_loss |-> kl_loss,
          total_loss |-> total_loss_of(cfg.reconstruction_wt,
                                       reconstruction_loss, kl_loss) ]

\* test_step, lines 94-100 (shapes accepted)
TestLosses(w, cfg, X, Y, eps) ==
    LET f == ForwardPass(w, cfg, X, eps)
        err == squared_difference(Y, f.reconstruction)
        reconstruction_loss == test_reduce(err)
        kl_loss == test_reduce(kl_elementwise(f.z_mean, f.z_log_var))
    IN  [ z_mean |-> f.z_mean, z_log_var |-> f.z_log_var, z |-> f.z,
          reconstruction |-> f.reconstruction, err |-> err,
          reconstruction_loss |-> reconstruction_loss,
          kl_loss |-> kl_loss,
          total_loss |-> total_loss_of(cfg.reconstruction_wt,
                                       reconstruction_loss, kl_loss) ]

\* tape.gradient(total_loss, self.trainable_weights): None for a weight the
\* taped computation never read, else the slope of total_loss along that
\* weight (forward difference over one unit, same batch and same noise)
Gradient(w, cfg, arch, X, Y, eps) ==
    [ n \in trainable_weights(arch) |->
        IF n \in Connected
        THEN [ none |-> FALSE,
               value |->
                 TrainLosses([w EXCEPT ![n] = @ + 1], cfg, X, Y, eps).total_loss
                   - TrainLosses(w, cfg, X, Y, eps).total_loss ]
        ELSE [ none |-> TRUE, value |-> 0 ] ]

\* the (gradient, variable) pairs the optimizer keeps: it drops the pairs
\* whose gradient is None
WithGradient(grads) == { n \in DOMAIN grads : ~grads[n].none }

\* optimizer.apply_gradients raises ValueError ("No gradients provided for
\* any variable") when no pair is left
NoGradients(grads) == WithGradient(grads) = {}

\* optimizer.apply_gradients: one step of one unit against the sign of the
\* gradient for every weight that has one
apply_gradients(w, grads) ==
    [ n \in WeightNames |->
        IF n \in WithGradient(grads) THEN w[n] - Sgn(grads[n].value)
                                     ELSE w[n] ]

----------------------------------------------------------------------------
(* keras.metrics.Mean *)

TrackerNames == {"total_loss", "reconstruction_loss", "kl_loss"}

\* Mean(name=...): total = 0, count = 0
NewMean == [total |-> 0, count |-> 0]

\* Mean.update_state(value)
update_state(m, value) == [total |-> m.total + value, count |-> m.count + 1]

\* Mean.result(): total / count, 0 when nothing was received
Result(m) == IF m.count = 0 THEN 0 ELSE RoundDiv(m.total, m.count)

\* the dict train_step and test_step return
Snapshot(t) ==
    [ loss |-> Result(t["total_loss"]),
      reconstruction_loss |-> Result(t["reconstruction_loss"]),
      kl_loss |-> Result(t["kl_loss"]) ]

----------------------------------------------------------------------------
(* Inputs of the operations *)

YVals == {One}
NoiseVals == {-One, One}

\* input batches X [batch, 1]
Batches == { Fill(1, 1, 1), Fill(1, 1, One), Fill(2, 1, 0), Fill(2, 1, One) }

\* shapes of the targets handed to the steps; the reconstruction is
\* [batch, decode_len]
TargetShapes == { <<1, 2>>, <<2, 2>>, <<2, 1>>, <<2, 3>> }

\* targets Y
Targets == { Fill(s[1], s[2], y) : s \in TargetShapes, y \in YVals }

\* the noise epsilon the encoder's sampling layer draws for a batch of b rows
Noises(b) == { [i \in 1..b |-> e] : e \in NoiseVals }

----------------------------------------------------------------------------
(* State *)

NoFrame == [kind |-> "none"]

NoConfig == [encode_len |-> 0, decode_len |-> 0, feat_dim |-> 0,
             latent_dim |-> 0, reconstruction_wt |-> 0]

Raised(op, exc) == [op |-> op, raised |-> exc]
Returned(op, value) == [op |-> op, raised |-> None, value |-> value]

Init ==
    /\ cls \in Subclasses
    /\ phase = "new"
    /\ config = NoConfig
    /\ encoder = None
    /\ decoder = None
    /\ weights = [n \in WeightNames |-> 0]
    /\ optimizer = [iterations |-> 0]
    /\ trackers = [t \in TrackerNames |-> NewMean]
    /\ received = [t \in TrackerNames |-> <<>>]
    /\ pc = "idle"
    /\ frame = NoFrame
    /\ result = Raised("none", None)
    /\ calls = <<>>
    /\ steps = 0

\* Instantiating the subclass: ABCMeta refuses a class that leaves
\* _get_encoder or _get_decoder abstract; otherwise __init__ stores the
\* configuration, creates the trackers and sets encoder = decoder = None,
\* and the subclass's own __init__ assigns the networks it builds (if it
\* does).  The model is then compiled with an optimizer.
Construct ==
    /\ phase = "new"
    /\ IF ~(cls.has_get_encoder /\ cls.has_get_decoder)
       THEN /\ phase' = "failed"
            /\ result' = Raised("__init__", "TypeError")
            /\ UNCHANGED <<config, encoder, decoder, weights, optimizer,
                           trackers, received>>
       ELSE /\ \E wt \in ReconstructionWts, dl \in DecodeLens :
                 config' = [encode_len |-> 1, decode_len |-> dl,
                            feat_dim |-> 1, latent_dim |-> 1,
                            reconstruction_wt |-> wt]
            /\ trackers' = [t \in TrackerNames |-> NewMean]
            /\ received' = [t \in TrackerNames |-> <<>>]
            /\ encoder' = IF cls.sets_encoder THEN "net" ELSE None
            /\ decoder' = IF cls.sets_decoder THEN "net" ELSE None
            /\ weights' = InitialWeights
            /\ optimizer' = [iterations |-> 0]
            /\ phase' = "built"
            /\ result' = Returned("__init__", None)
    /\ UNCHANGED <<cls, pc, frame, calls, steps>>

\* an operation may start: the model exists and no step is running
Ready == phase = "built" /\ pc = "idle" /\ steps < MaxSteps

\* calling self.encoder / self.decoder when it is None raises TypeError
Callable == encoder # None /\ decoder # None

\* variant: call decoding the sampled z
x_decoded_of_sample(w, cfg, X, eps) ==
    Decoder(w, Encoder(w, X, eps).z, cfg.decode_len)

\* call(X): decode the encoder's z_mean.  The decoder of a batched z_mean
\* returns a rank-2 tensor, so the rank-1 reshape of lines 38-39 is not taken.
x_decoded_of(w, cfg, X, eps) ==
    Decoder(w, Encoder(w, X, eps).z_mean, cfg.decode_len)

Call ==
    /\ Ready
    /\ \E X \in Batches : \E eps \in Noises(Rows(X)) :
         IF ~Callable
         THEN /\ result' = Raised("call", "TypeError")
              /\ calls' = calls
         ELSE LET x_decoded == x_decoded_of(weights, config, X, eps)
              IN  /\ result' = Returned("call", x_decoded)
                  /\ calls' = <<[weights |-> weights, X |-> X, eps |-> eps,
                                 x_decoded |-> x_decoded]>>
                              \o SubSeq(calls, 1, IF calls = <<>> THEN 0 ELSE 1)
    /\ steps' = steps + 1
    /\ UNCHANGED <<cls, phase, config, encoder, decoder, weights, optimizer,
                   trackers, received, pc, frame>>

\* the locals of a running step; w0 remembers the weights at entry
StepFrame(kind, X, Y, eps, w0, l) ==
    [ kind |-> kind, X |-> X, Y |-> Y, eps |-> eps, w0 |-> w0,
      z_mean |-> l.z_mean, z_log_var |-> l.z_log_var, z |-> l.z,
      reconstruction |-> l.reconstruction, err |-> l.err,
      reconstruction_loss |-> l.reconstruction_loss,
      kl_loss |-> l.kl_loss, total_loss |-> l.total_loss,
      grads |-> <<>> ]

\* train_step, lines 70-78: the taped forward pass and the losses
TrainForward ==
    /\ Ready
    /\ \E X \in Batches, Y \in Targets : \E eps \in Noises(Rows(X)) :
         IF ~Callable
         THEN /\ result' = Raised("train_step", "TypeError")
              /\ UNCHANGED <<pc, frame>>
         ELSE IF ~ShapesAccepted(Y, ForwardPass(weights, config, X, eps).reconstruction)
         THEN /\ result' = Raised("train_step", "InvalidArgumentError")
              /\ UNCHANGED <<pc, frame>>
         ELSE /\ frame' = StepFrame("train", X, Y, eps, weights,
                                    TrainLosses(weights, config, X, Y, eps))
              /\ pc' = "train_tape"
              /\ UNCHANGED result
    /\ steps' = steps + 1
    /\ UNCHANGED <<cls, phase, config, encoder, decoder, weights, optimizer,
                   trackers, received, calls>>

\* train_step, line 80
TrainGradient ==
    /\ pc = "train_tape"
    /\ frame' = [frame EXCEPT !.grads =
                    Gradient(weights, config, cls.arch, frame.X, frame.Y,
                             frame.eps)]
    /\ pc' = "train_grads"
    /\ UNCHANGED <<cls, phase, config, encoder, decoder, weights, optimizer,
                   trackers, received, result, calls, steps>>

\* train_step, line 81
TrainApply ==
    /\ pc = "train_grads"
    /\ IF NoGradients(frame.grads)
       THEN /\ result' = Raised("train_step", "ValueError")
            /\ pc' = "idle"
            /\ frame' = NoFrame
            /\ UNCHANGED <<weights, optimizer>>
       ELSE /\ weights' = apply_gradients(weights, frame.grads)
            /\ optimizer' = [iterations |-> optimizer.iterations + 1]
            /\ pc' = "train_applied"
            /\ UNCHANGED <<result, frame>>
    /\ UNCHANGED <<cls, phase, config, encoder, decoder, trackers, received,
                   calls, steps>>

\* variant: a step that resets the trackers before it updates them
TrackedAfterReset(t, f) ==
    [ total_loss |-> update_state(NewMean, f.total_loss),
      reconstruction_loss |-> update_state(NewMean, f.reconstruction_loss),
      kl_loss |-> update_state(NewMean, f.kl_loss) ]

\* the three update_state calls of a step, on the step's scalars
Tracked(t, f) ==
    [ total_loss |-> update_state(t["total_loss"], f.total_loss),
      reconstruction_loss |->
          update_state(t["reconstruction_loss"], f.reconstruction_loss),
      kl_loss |-> update_state(t["kl_loss"], f.kl_loss) ]

\* history of what the trackers were fed
Fed(r, f) ==
    [ total_loss |-> Append(r["total_loss"], f.total_loss),
      reconstruction_loss |->
          Append(r["reconstruction_loss"], f.reconstruction_loss),
      kl_loss |-> Append(r["kl_loss"], f.kl_loss) ]

\* variant: train_step feeding the trackers losses recomputed after the
\* optimizer update
TrainReportAfterUpdate ==
    /\ pc = "train_applied"
    /\ LET l == TrainLosses(weights, config, frame.X, frame.Y, frame.eps)
       IN  /\ trackers' = Tracked(trackers, l)
           /\ received' = Fed(received, l)
    /\ result' = Returned("train_step", Snapshot(trackers'))
    /\ pc' = "idle"
    /\ frame' = NoFrame
    /\ UNCHANGED <<cls, phase, config, encoder, decoder, weights, optimizer,
                   calls, steps>>

\* train_step, lines 82-89
TrainReport ==
    /\ pc = "train_applied"
    /\ trackers' = Tracked(trackers, frame)
    /\ received' = Fed(received, frame)
    /\ result' = Returned("train_step", Snapshot(trackers'))
    /\ pc' = "idle"
    /\ frame' = NoFrame
    /\ UNCHANGED <<cls, phase, config, encoder, decoder, weights, optimizer,
                   calls, steps>>

\* test_step, lines 93-100
TestForward ==
    /\ Ready
    /\ \E X \in Batches, Y \in Targets : \E eps \in Noises(Rows(X)) :
         IF ~Callable
         THEN /\ result' = Raised("test_step", "TypeError")
              /\ UNCHANGED <<pc, frame>>
         ELSE IF ~ShapesAccepted(Y, ForwardPass(weights, config, X, eps).reconstruction)
         THEN /\ result' = Raised("test_step", "InvalidArgumentError")
              /\ UNCHANGED <<pc, frame>>
         ELSE /\ frame' = StepFrame("test", X, Y, eps, weights,
                                    TestLosses(weights, config, X, Y, eps))
              /\ pc' = "test_losses"
              /\ UNCHANGED result
    /\ steps' = steps + 1
    /\ UNCHANGED <<cls, phase, config, encoder, decoder, weights, optimizer,
                   trackers, received, calls>>

\* variant: test_step applying an optimizer update like train_step
TestReportAndApply ==
    /\ pc = "test_losses"
    /\ weights' = apply_gradients(weights,
                     Gradient(weights, config, cls.arch, frame.X, frame.Y,
                              frame.eps))
    /\ trackers' = Tracked(trackers, frame)
    /\ received' = Fed(received, frame)
    /\ result' = Returned("test_step", Snapshot(trackers'))
    /\ pc' = "idle"
    /\ frame' = NoFrame
    /\ UNCHANGED <<cls, phase, config, encoder, decoder, optimizer,
                   calls, steps>>

\* test_step, lines 101-109
TestReport ==
    /\ pc = "test_losses"
    /\ trackers' = Tracked(trackers, frame)
    /\ received' = Fed(received, frame)
    /\ result' = Returned("test_step", Snapshot(trackers'))
    /\ pc' = "idle"
    /\ frame' = NoFrame
    /\ UNCHANGED <<cls, phase, config, encoder, decoder, weights, optimizer,
                   calls, steps>>

\* the training loop resets the metrics (Mean.reset_state) between epochs
ResetTrackers ==
    /\ phase = "built"
    /\ pc = "idle"
    /\ trackers' = [t \in TrackerNames |-> NewMean]
    /\ received' = [t \in TrackerNames |-> <<>>]
    /\ UNCHANGED <<cls, phase, config, encoder, decoder, weights, optimizer,
                   pc, frame, result, calls, steps>>

Next ==
    \/ Construct
    \/ Call
    \/ TrainForward
    \/ TrainGradient
    \/ TrainApply
    \/ TrainReport
    \/ TestForward
    \/ TestReport
    \/ ResetTrackers

Spec == Init /\ [][Next]_vars

----------------------------------------------------------------------------
(* Vocabulary of the properties *)

\* the scalar of a step that goes to tracker t
Scalar(f, t) ==
    CASE t = "total_loss"          -> f.total_loss
      [] t = "reconstruction_loss" -> f.reconstruction_loss
      [] t = "kl_loss"             -> f.kl_loss

\* the entry of the returned dict that reports tracker t
Reported(value, t) ==
    CASE t = "total_loss"          -> value.loss
      [] t = "reconstruction_loss" -> value.reconstruction_loss
      [] t = "kl_loss"             -> value.kl_loss

\* arithmetic mean of a non-empty sequence of scalars
MeanOf(s) == RoundDiv(SumSeq(s), Len(s))

IsPrefix(s, t) == Len(s) <= Len(t) /\ SubSeq(t, 1, Len(s)) = s

AllZero(T) == \A i \in 1..Rows(T) : \A j \in 1..Cols(T) : T[i][j] = 0

\* a step of test_step: its forward pass (accepted or raising) or its report
TestStepping ==
    \/ pc = "idle" /\ pc' = "test_losses"
    \/ pc = "test_losses"
    \/ pc = "idle" /\ pc' = "idle" /\ steps' # steps /\ result'.op = "test_step"

\* a step of call
CallStepping ==
    pc = "idle" /\ pc' = "idle" /\ steps' # steps /\ result'.op = "call"

\* the step in which train_step or test_step returns its dict
Reporting == pc \in {"train_applied", "test_losses"} /\ pc' = "idle"

\* the caller's reset of the metrics
Resetting == phase = "built" /\ pc = "idle" /\ pc' = "idle" /\ steps' = steps

\* a step's locals are live
InStep == pc # "idle"

----------------------------------------------------------------------------
(* C1: a test_step, from its forward pass to its return, leaves every weight
   of encoder and decoder (and the optimizer, the configuration and the
   networks) exactly as it found them; of the model's state it changes the
   three trackers only. *)
C1_EvaluateKeepsParameters ==
    [][TestStepping =>
         /\ weights' = weights
         /\ optimizer' = optimizer
         /\ UNCHANGED <<cls, phase, config, encoder, decoder, calls>>]_vars

\* a test_step has returned after a train_step moved the weights
C1_Witness ==
    /\ result.op = "test_step"
    /\ result.raised = None
    /\ weights # InitialWeights
    /\ trackers["total_loss"].count = 2

(* C2: a successful train_step runs, in this order: forward pass and losses
   on the weights at entry; the gradient of that total loss for every
   trainable weight; one optimizer update; one update of each tracker with
   the scalars of the forward pass (computed before the update); the return
   of the trackers' running means. *)
C2_TrainStepOrder ==
    [][/\ (pc = "idle" /\ pc' = "train_tape") =>
            /\ frame'.w0 = weights
            /\ \A t \in TrackerNames :
                 Scalar(frame', t) =
                   Scalar(TrainLosses(weights, config, frame'.X, frame'.Y,
                                      frame'.eps), t)
            /\ UNCHANGED <<weights, optimizer, trackers>>
       /\ (pc = "train_tape") =>
            /\ pc' = "train_grads"
            /\ DOMAIN frame'.grads = trainable_weights(cls.arch)
            /\ frame'.grads = Gradient(frame.w0, config, cls.arch, frame.X,
                                       frame.Y, frame.eps)
            /\ UNCHANGED <<weights, optimizer, trackers>>
       /\ (pc = "train_grads" /\ pc' # "idle") =>
            /\ pc' = "train_applied"
            /\ optimizer'.iterations = optimizer.iterations + 1
            /\ weights' = apply_gradients(frame.w0, frame.grads)
            /\ UNCHANGED <<trackers, frame>>
       /\ (pc = "train_applied") =>
            /\ pc' = "idle"
            /\ UNCHANGED <<weights, optimizer>>
            /\ \A t \in TrackerNames :
                 /\ trackers'[t].count = trackers[t].count + 1
                 /\ trackers'[t].total = trackers[t].total
                      + Scalar(TrainLosses(frame.w0, config, frame.X, frame.Y,
                                           frame.eps), t)
                 /\ Reported(result'.value, t) = Result(trackers'[t])
       /\ (optimizer' # optimizer /\ phase = "built") => pc = "train_grads"
      ]_vars

\* a train_step has returned, its update changed the losses of its batch
C2_Witness ==
    /\ result.op = "train_step"
    /\ result.raised = None
    /\ optimizer.iterations = 1
    /\ weights # InitialWeights
    /\ trackers["total_loss"].count = 1
    /\ \E X \in Batches, Y \in Targets : \E eps \in Noises(Rows(X)) :
         /\ ShapesAccepted(Y, ForwardPass(weights, config, X, eps).reconstruction)
         /\ TrainLosses(InitialWeights, config, X, Y, eps).total_loss
              = trackers["total_loss"].total
         /\ TrainLosses(weights, config, X, Y, eps).total_loss
              # trackers["total_loss"].total

(* C3: whatever the interleaving of train_step and test_step, the value a
   step returns for a tracker is the arithmetic mean of every scalar that
   tracker received since the last reset by the caller; a step appends its
   scalar and never resets, so mean-reduced and sum-reduced values share one
   running mean. *)
C3_SnapshotIsMeanSinceReset ==
    [][/\ Reporting =>
            \A t \in TrackerNames :
              /\ received'[t] = Append(received[t], Scalar(frame, t))
              /\ Reported(result'.value, t) = MeanOf(received'[t])
       /\ ~Resetting =>
            \A t \in TrackerNames :
              /\ IsPrefix(received[t], received'[t])
              /\ trackers'[t].count >= trackers[t].count
      ]_vars

\* a test_step returned the mean of one train scalar and one test scalar
C3_Witness ==
    /\ result.op = "test_step"
    /\ result.raised = None
    /\ optimizer.iterations = 1
    /\ Len(received["total_loss"]) = 2
    /\ received["total_loss"][1] # received["total_loss"][2]
    /\ result.value.loss # received["total_loss"][2]

(* C4: in train_step and in test_step the total loss of the step is
   reconstruction_wt * reconstruction_loss + kl_loss, reconstruction_wt
   being the value given at construction (5.0 by default) and never changed;
   with reconstruction_wt = 0 the total loss is the KL loss. *)
C4_TotalLoss ==
    /\ [](InStep =>
            /\ frame.total_loss =
                 Mul(config.reconstruction_wt, frame.reconstruction_loss)
                   + frame.kl_loss
            /\ config.reconstruction_wt = 0 => frame.total_loss = frame.kl_loss
            /\ config.reconstruction_wt \in ReconstructionWts)
    /\ [][phase = "built" => config' = config]_vars

\* a step with weight 0 whose reconstruction loss is not 0
C4_Witness ==
    /\ InStep
    /\ config.reconstruction_wt = 0
    /\ frame.reconstruction_loss > 0
    /\ frame.kl_loss > 0

(* C5: a train_step reduces both the squared-error tensor and the KL tensor
   by mean over all elements, a test_step reduces both by sum over all
   elements; no step mixes the two. *)
C5_ReductionByStepKind ==
    InStep =>
      LET kl == kl_elementwise(frame.z_mean, frame.z_log_var)
      IN  /\ frame.kind = "train" =>
               /\ frame.reconstruction_loss = reduce_mean(frame.err)
               /\ frame.kl_loss = reduce_mean(kl)
          /\ frame.kind = "test" =>
               /\ frame.reconstruction_loss = reduce_sum(frame.err)
               /\ frame.kl_loss = reduce_sum(kl)
          /\ frame.kind \in {"train", "test"}
          /\ frame.err = squared_difference(frame.Y, frame.reconstruction)

\* a test_step on tensors whose sum and mean differ
C5_Witness ==
    /\ pc = "test_losses"
    /\ reduce_sum(frame.err) # reduce_mean(frame.err)
    /\ LET kl == kl_elementwise(frame.z_mean, frame.z_log_var)
       IN  reduce_sum(kl) # reduce_mean(kl)

(* C6: call(X) decodes z_mean: two calls on the same weights and the same X
   return the same output whatever noise the encoder drew in each, and a
   call changes neither the weights nor the trackers. *)
C6_CallDeterministic ==
    /\ [](Len(calls) = 2 =>
            (calls[1].weights = calls[2].weights /\ calls[1].X = calls[2].X
               => calls[1].x_decoded = calls[2].x_decoded))
    /\ [][CallStepping =>
            UNCHANGED <<weights, optimizer, trackers, received, config,
                        encoder, decoder>>]_vars

\* two calls on the same weights and X whose encoders sampled different z
C6_Witness ==
    /\ Len(calls) = 2
    /\ calls[1].weights = calls[2].weights
    /\ calls[1].X = calls[2].X
    /\ calls[1].eps # calls[2].eps
    /\ Encoder(calls[1].weights, calls[1].X, calls[1].eps).z
         # Encoder(calls[2].weights, calls[2].X, calls[2].eps).z
    /\ Decoder(calls[1].weights,
               Encoder(calls[1].weights, calls[1].X, calls[1].eps).z,
               config.decode_len)
         # calls[1].x_decoded

(* C7: construction fails fast: no model whose subclass leaves _get_encoder
   or _get_decoder unimplemented, or that is left without an encoder or a
   decoder, is constructed, so call, train_step and test_step never meet a
   missing network. *)
C7_ConstructionFailsFast ==
    /\ phase = "built" => encoder # None /\ decoder # None
    /\ result.raised = "TypeError" => result.op = "__init__"

(* C8: in train_step a gradient of None for any trainable weight is fatal:
   the step raises, no weight is updated by the optimizer and no tracker is
   updated. *)
C8_NoneGradientIsFatal ==
    [][(pc = "train_grads" /\ \E n \in DOMAIN frame.grads : frame.grads[n].none)
         => /\ pc' = "idle"
            /\ result'.raised # None
            /\ weights' = weights
            /\ optimizer' = optimizer
            /\ trackers' = trackers]_vars

(* C9: in train_step and test_step a target Y whose shape differs from the
   reconstruction's makes the step fail with no loss, no tracker update and
   no weight update; losses are computed only for equal shapes. *)
C9_ShapeMismatchIsFatal ==
    InStep => Shape(frame.Y) = Shape(frame.reconstruction)

(* C10 as stated: under the mean of train_step and the sum of test_step the
   KL loss is zero exactly when every element of z_mean and z_log_var is 0,
   and strictly positive otherwise. *)
C10_KlZeroIffAllZero ==
    InStep =>
      /\ frame.kl_loss = 0 <=> (AllZero(frame.z_mean) /\ AllZero(frame.z_log_var))
      /\ frame.kl_loss >= 0

(* C10 as amended: under both reductions the KL loss is zero whenever every
   element of z_mean and z_log_var is 0. *)
C10_KlZeroWhenAllZero ==
    InStep =>
      (AllZero(frame.z_mean) /\ AllZero(frame.z_log_var) => frame.kl_loss = 0)

\* a step on a batch of two rows whose latent tensors are all zero
C10_Witness ==
    /\ InStep
    /\ AllZero(frame.z_mean)
    /\ AllZero(frame.z_log_var)
    /\ frame.kl_loss = 0
    /\ frame.reconstruction_loss > 0

====
